---- MODULE Spec2Model ----
(***************************************************************************)
(* Model of the softfloat library "floating": the bit-field codec          *)
(* (bit, range, extract, pack), the classifier, the add/sub kernel and     *)
(* the hardfloat / FloPoCo translators, instantiated at the f16 format     *)
(* (EXP = 5, SIG = 11).  Every function of the library is pure, so each    *)
(* behaviour of the model is one call: Init draws the arguments, one       *)
(* action applies one library function and records its outcome in res.     *)
(* A Rust panic (failed assert!, BigUint subtraction below zero, index     *)
(* out of bounds, todo!()) is the outcome Panic.                           *)
(***************************************************************************)
EXTENDS Integers, Sequences, FiniteSets, TLC

VARIABLES kind, op, a, b, fsign, fexp, fman, upper, lower, res, arg, out,
          f16_path

vars == <<kind, op, a, b, fsign, fexp, fman, upper, lower, res, arg, out,
          f16_path>>

(***************************************************************************)
(* Format f16 (impl FloatType for f16) and derived quantities.             *)
(***************************************************************************)
EXP == 5
SIG == 11
WIDTH == EXP + SIG

\* width of the machine word read by to_u64_digits (u64::leading_zeros)
U64Bits == 64

\* significand bits of binary64 (impl FloatType for f64)
F64_SIG == 53

\* outcome of a call that panics
Panic == -1

(***************************************************************************)
(* Bounds of the sampled operand pairs.                                    *)
(***************************************************************************)
ExpSpan == 2
ManSpan == 1

(***************************************************************************)
(* Arithmetic on unbounded naturals as BigUint performs it.                *)
(***************************************************************************)
RECURSIVE Pow2(_)
Pow2(n) == IF n <= 0 THEN 1 ELSE 2 * Pow2(n - 1)

\* BigUint::bits: number of significant bits
RECURSIVE BitLen(_)
BitLen(x) == IF x <= 0 THEN 0 ELSE 1 + BitLen(x \div 2)

Shl(x, n) == x * Pow2(n)
Shr(x, n) == x \div Pow2(n)

RECURSIVE BitOr(_, _)
BitOr(x, y) ==
    IF x = 0 THEN y
    ELSE IF y = 0 THEN x
    ELSE (IF x % 2 = 1 \/ y % 2 = 1 THEN 1 ELSE 0) + 2 * BitOr(x \div 2, y \div 2)

RECURSIVE BitAnd(_, _)
BitAnd(x, y) ==
    IF x = 0 \/ y = 0 THEN 0
    ELSE (IF x % 2 = 1 /\ y % 2 = 1 THEN 1 ELSE 0) + 2 * BitAnd(x \div 2, y \div 2)

BitXor1(x, y) == (x + y) % 2

\* u64::leading_zeros of the single u64 digit of x (0 < x < 2^64)
leading_zeros(x) == U64Bits - BitLen(x)

bias == Shl(1, EXP - 1) - 1
max_exp == Shl(1, EXP) - 1

(***************************************************************************)
(* lib.rs: bit, range, extract, pack                                       *)
(***************************************************************************)
range(num, up, lo) ==
    IF ~(up >= lo) THEN Panic
    ELSE BitAnd(Shr(num, lo), Shl(1, up - lo + 1) - 1)

bit(num, idx) == BitAnd(Shr(num, idx), 1)

\* a variant of extract whose exponent field starts one bit too high
extract_short_exp(num) ==
    << bit(num, WIDTH - 1),
       range(num, WIDTH - 2, SIG),
       range(num, SIG - 2, 0) >>

extract(num) ==
    << bit(num, WIDTH - 1),
       range(num, WIDTH - 2, SIG - 1),
       range(num, SIG - 2, 0) >>

\* a variant of pack whose mantissa check is off by one
pack_loose_man(sign, exp, man) ==
    IF sign < 0 \/ exp < 0 \/ man < 0 THEN Panic
    ELSE IF ~(sign < Shl(1, 1)) THEN Panic
    ELSE IF ~(exp < Shl(1, EXP)) THEN Panic
    ELSE IF ~(man <= Shl(1, SIG - 1)) THEN Panic
    ELSE Shl(sign, WIDTH - 1) + Shl(exp, SIG - 1) + man

pack(sign, exp, man) ==
    IF sign < 0 \/ exp < 0 \/ man < 0 THEN Panic
    ELSE IF ~(sign < Shl(1, 1)) THEN Panic
    ELSE IF ~(exp < Shl(1, EXP)) THEN Panic
    ELSE IF ~(man < Shl(1, SIG - 1)) THEN Panic
    ELSE Shl(sign, WIDTH - 1) + Shl(exp, SIG - 1) + man

\* f16::from_biguint: the least significant u32 digit, cast to u16
from_biguint(num) == num % Pow2(WIDTH)

\* T::from_biguint(&pack(sign_c, exp_c, man_c)) applied to a triple; a triple
\* holding Panic is a panic raised while the triple was being computed
PackTriple(t) ==
    LET bits == pack(t[1], t[2], t[3])
    IN  IF bits = Panic THEN Panic ELSE from_biguint(bits)

(***************************************************************************)
(* classify.rs                                                             *)
(***************************************************************************)
\* a variant of softfloat_classify that tests the infinity before the NaN
\* without looking at the mantissa
softfloat_classify_no_man(x) ==
    LET t == extract(x)
        exp_a == t[2]
        man_a == t[3]
    IN  IF exp_a = 0 /\ man_a = 0 THEN "Zero"
        ELSE IF exp_a = 0 /\ man_a # 0 THEN "Subnormal"
        ELSE IF exp_a = max_exp THEN "Infinite"
        ELSE "Normal"

softfloat_classify(x) ==
    LET t == extract(x)
        exp_a == t[2]
        man_a == t[3]
    IN  IF exp_a = 0 /\ man_a = 0 THEN "Zero"
        ELSE IF exp_a = 0 /\ man_a # 0 THEN "Subnormal"
        ELSE IF exp_a = max_exp /\ man_a = 0 THEN "Infinite"
        ELSE IF exp_a = max_exp /\ man_a # 0 THEN "Nan"
        ELSE "Normal"

(***************************************************************************)
(* add.rs: round, rshift_sticky                                            *)
(***************************************************************************)
round(man) ==
    LET low_bits == BitAnd(man, 7)
        r == Shr(man, 3)
    IN  IF low_bits < 4 THEN r
        ELSE IF low_bits > 4 THEN r + 1
        ELSE IF bit(r, 0) = 1 THEN r + 1
        ELSE r

rshift_sticky(man, shift) ==
    IF BitAnd(man, Shl(1, shift) - 1) # 0
    THEN BitOr(Shr(man, shift), 1)
    ELSE Shr(man, shift)

\* BigUint subtraction: panics when the result would be negative
usub(x, y) == IF x < y THEN Panic ELSE x - y

norm_bit == Shl(1, SIG - 1)

\* the last value of a sequence of values
Last(vals) == vals[Len(vals)]

\* the pre-shift with eight extra low bits instead of three
pre_shift_wide(man) == Shl(man, 8)

\* pre left shift 3 bits for rounding
pre_shift(man) == Shl(man, 3)

(***************************************************************************)
(* add.rs: effective_add                                                   *)
(***************************************************************************)
\* The definitions named _values give the values that norm_a, norm_b and
\* man_c take, one after the other, in the order the code assigns them; a
\* statement that is not executed adds no value.  The result is made from
\* the last of them.

\* case 1.1: subnormal/zero + subnormal/zero
add_equal_subnormal_values(man_a, man_b) == << man_a + man_b >>

\* case 1.3: normal + normal, equal exponents
add_equal_normal_values(man_a, man_b) ==
    LET norm_a == man_a + norm_bit
        norm_b == man_b + norm_bit
        man_c0 == norm_a + norm_b
        up == BitAnd(man_c0, 3) = 3
        man_c1 == IF up THEN man_c0 + 2 ELSE man_c0
        man_c2 == Shr(man_c1, 1)
    IN  << norm_a, norm_b, man_c0 >>
        \o (IF up THEN << man_c1 >> ELSE << >>)
        \o << man_c2, usub(man_c2, norm_bit) >>

add_equal_normal(sign_a, exp_a, man_a, man_b) ==
    << sign_a, exp_a + 1, Last(add_equal_normal_values(man_a, man_b)) >>

\* a variant of add_differ_finite that gives the operand with the smaller
\* exponent the implicit bit even when its exponent field is 0
add_differ_finite_implicit(sign_a, exp_a, man_a, exp_b, man_b) ==
    LET norm_a0 == Shl(man_a, 3)
        norm_b0 == Shl(man_b, 3)
        a_bigger == exp_a > exp_b
        norm_b == IF a_bigger
                  THEN rshift_sticky(norm_b0 + Shl(norm_bit, 3), exp_a - exp_b)
                  ELSE norm_b0
        norm_a == IF a_bigger
                  THEN norm_a0
                  ELSE rshift_sticky(norm_a0 + Shl(norm_bit, 3), exp_b - exp_a)
        exp_c0 == IF a_bigger THEN exp_a ELSE exp_b
        man_c0 == norm_a + norm_b + Shl(norm_bit, 3)
        carry == man_c0 >= Shl(norm_bit, 4)
        exp_c == IF carry THEN exp_c0 + 1 ELSE exp_c0
        man_c1 == IF carry THEN Shr(man_c0, 1) ELSE man_c0
    IN  << sign_a, exp_c, usub(round(man_c1), norm_bit) >>

\* case 2: exponents differ, both finite
add_differ_finite_steps(exp_a, man_a, exp_b, man_b) ==
    LET norm_a0 == pre_shift(man_a)
        norm_b0 == pre_shift(man_b)
        a_bigger == exp_a > exp_b
        exp_diff == IF a_bigger THEN exp_a - exp_b ELSE exp_b - exp_a
        implicit == IF a_bigger THEN exp_b # 0 ELSE exp_a # 0
        norm_small0 == IF a_bigger THEN norm_b0 ELSE norm_a0
        norm_small1 == IF implicit THEN norm_small0 + pre_shift(norm_bit)
                       ELSE norm_small0
        aligned == rshift_sticky(norm_small1, exp_diff)
        norm_a == IF a_bigger THEN norm_a0 ELSE aligned
        norm_b == IF a_bigger THEN aligned ELSE norm_b0
        exp_c0 == IF a_bigger THEN exp_a ELSE exp_b
        man_c0 == norm_a + norm_b + pre_shift(norm_bit)
        carry == man_c0 >= Shl(norm_bit, 4)
        man_c1 == IF carry THEN Shr(man_c0, 1) ELSE man_c0
        man_c2 == round(man_c1)
    IN  [ exp_c |-> IF carry THEN exp_c0 + 1 ELSE exp_c0,
          values |-> << man_a, man_b, norm_a0, norm_b0 >>
                     \o (IF implicit THEN << norm_small1 >> ELSE << >>)
                     \o << aligned, man_c0 >>
                     \o (IF carry THEN << man_c1 >> ELSE << >>)
                     \o << man_c2, usub(man_c2, norm_bit) >> ]

add_differ_finite(sign_a, exp_a, man_a, exp_b, man_b) ==
    LET steps == add_differ_finite_steps(exp_a, man_a, exp_b, man_b)
    IN  << sign_a, steps.exp_c, Last(steps.values) >>

\* a variant of add_equal_special that never looks at b
add_equal_special_first(sign_a, man_a, sign_b, man_b) ==
    << sign_a, max_exp, man_a >>

\* case 1.2: inf/nan + inf/nan: propagate nan
add_equal_special(sign_a, man_a, sign_b, man_b) ==
    IF man_a # 0 THEN << sign_a, max_exp, man_a >>
    ELSE IF man_b # 0 THEN << sign_b, max_exp, man_b >>
    ELSE << sign_a, max_exp, man_a >>

effective_add_fields(sign_a, exp_a, man_a, sign_b, exp_b, man_b) ==
    IF exp_a = exp_b
    THEN IF exp_a = 0
         THEN << sign_a, 0, Last(add_equal_subnormal_values(man_a, man_b)) >>
         ELSE IF exp_a = max_exp
         THEN add_equal_special(sign_a, man_a, sign_b, man_b)
         ELSE add_equal_normal(sign_a, exp_a, man_a, man_b)
    ELSE IF exp_a = max_exp THEN << sign_a, exp_a, man_a >>
         ELSE IF exp_b = max_exp THEN << sign_b, exp_b, man_b >>
         ELSE add_differ_finite(sign_a, exp_a, man_a, exp_b, man_b)

effective_add(sign_a, exp_a, man_a, sign_b, exp_b, man_b) ==
    PackTriple(effective_add_fields(sign_a, exp_a, man_a, sign_b, exp_b, man_b))

(***************************************************************************)
(* add.rs: effective_sub                                                   *)
(***************************************************************************)
\* case 1.3, man_a # man_b: exp_x is the exponent of both operands, man_c
\* the difference of the mantissas (bigger minus smaller).  exp_a - shift is
\* computed before man_c <<= shift and panics below zero.
sub_equal_normal_steps(exp_x, man_c) ==
    LET shift == leading_zeros(man_c) - (U64Bits - SIG)
        exp_c == usub(exp_x, shift)
        shifted == Shl(man_c, shift)
    IN  IF man_c = 0 \/ exp_c = Panic
        THEN [ exp_c |-> Panic, man_c |-> Panic, values |-> << man_c >> ]
        ELSE [ exp_c |-> exp_c, man_c |-> usub(shifted, norm_bit),
               values |-> << man_c, shifted, usub(shifted, norm_bit) >> ]

sub_equal_normal(sign_c, exp_x, man_c) ==
    LET steps == sub_equal_normal_steps(exp_x, man_c)
    IN  << sign_c, steps.exp_c, steps.man_c >>

\* case 2: exponents differ, both finite.  man_c.to_u64_digits()[0] panics
\* on man_c = 0; the u32 expression leading_zeros + 3 - (64 - SIG) overflows
\* below zero; exp - shift is computed after man_c <<= shift.
sub_differ_finite_steps(exp_a, man_a, exp_b, man_b) ==
    LET norm_a0 == IF exp_a = 0 THEN man_a ELSE man_a + norm_bit
        norm_a1 == pre_shift(norm_a0)
        norm_b0 == IF exp_b = 0 THEN man_b ELSE man_b + norm_bit
        norm_b1 == pre_shift(norm_b0)
        a_bigger == exp_a > exp_b
        exp_big == IF a_bigger THEN exp_a ELSE exp_b
        exp_diff == IF a_bigger THEN exp_a - exp_b ELSE exp_b - exp_a
        aligned == rshift_sticky(IF a_bigger THEN norm_b1 ELSE norm_a1, exp_diff)
        man_c0 == usub(IF a_bigger THEN norm_a1 ELSE norm_b1, aligned)
        head == << norm_a0, norm_a1, norm_b0, norm_b1, aligned >>
        shift == leading_zeros(man_c0) + 3 - (U64Bits - SIG)
        man_c1 == Shl(man_c0, shift)
        exp_c == usub(exp_big, shift)
        man_c2 == usub(man_c1, pre_shift(norm_bit))
        panicked(vals) == [ exp_c |-> Panic, man_c |-> Panic, values |-> vals ]
    IN  IF man_c0 = Panic THEN panicked(head)
        ELSE IF man_c0 = 0 \/ shift < 0 THEN panicked(head \o << man_c0 >>)
        ELSE IF exp_c = Panic \/ man_c2 = Panic
        THEN panicked(head \o << man_c0, man_c1 >>)
        ELSE [ exp_c |-> exp_c, man_c |-> round(man_c2),
               values |-> head \o << man_c0, man_c1, man_c2, round(man_c2) >> ]

sub_differ_finite(sign_a, exp_a, man_a, exp_b, man_b) ==
    LET steps == sub_differ_finite_steps(exp_a, man_a, exp_b, man_b)
    IN  << IF exp_a > exp_b THEN sign_a ELSE 1 - sign_a, steps.exp_c, steps.man_c >>

\* case 1.1 with the sign of a kept on a zero difference
sub_equal_subnormal_signed_zero(sign_a, man_a, man_b) ==
    IF man_a > man_b THEN << sign_a, 0, man_a - man_b >>
    ELSE IF man_a < man_b THEN << 1 - sign_a, 0, man_b - man_a >>
    ELSE << sign_a, 0, 0 >>

\* case 1.1 with the two sign rules exchanged
sub_equal_subnormal_swapped(sign_a, man_a, man_b) ==
    IF man_a > man_b THEN << 1 - sign_a, 0, man_a - man_b >>
    ELSE IF man_a < man_b THEN << sign_a, 0, man_b - man_a >>
    ELSE << 0, 0, 0 >>

\* case 1.1: subnormal/zero - subnormal/zero
sub_equal_subnormal(sign_a, man_a, man_b) ==
    IF man_a > man_b THEN << sign_a, 0, man_a - man_b >>
    ELSE IF man_a < man_b THEN << 1 - sign_a, 0, man_b - man_a >>
    ELSE << 0, 0, 0 >>

\* case 1.2 with inf - inf keeping the sign of a
sub_equal_special_signed(sign_a, exp_a, man_a, sign_b, exp_b, man_b) ==
    IF man_a # 0 THEN << sign_a, exp_a, man_a >>
    ELSE IF man_b # 0 THEN << sign_b, exp_b, man_b >>
    ELSE << sign_a, max_exp, Shl(1, SIG - 2) >>

\* case 1.2: inf/nan - inf/nan
sub_equal_special(sign_a, exp_a, man_a, sign_b, exp_b, man_b) ==
    IF man_a # 0 THEN << sign_a, exp_a, man_a >>
    ELSE IF man_b # 0 THEN << sign_b, exp_b, man_b >>
    ELSE << 0, max_exp, Shl(1, SIG - 2) >>

effective_sub_fields(sign_a, exp_a, man_a, sign_b, exp_b, man_b) ==
    IF exp_a = exp_b
    THEN IF exp_a = 0
         THEN sub_equal_subnormal(sign_a, man_a, man_b)
         ELSE IF exp_a = max_exp
         THEN sub_equal_special(sign_a, exp_a, man_a, sign_b, exp_b, man_b)
         ELSE IF man_a < man_b THEN sub_equal_normal(1 - sign_a, exp_a, man_b - man_a)
              ELSE IF man_a > man_b THEN sub_equal_normal(sign_a, exp_a, man_a - man_b)
              ELSE << 0, 0, 0 >>
    ELSE IF exp_a = max_exp THEN << sign_a, exp_a, man_a >>
         ELSE IF exp_b = max_exp THEN << sign_b, exp_b, man_b >>
         ELSE sub_differ_finite(sign_a, exp_a, man_a, exp_b, man_b)

effective_sub(sign_a, exp_a, man_a, sign_b, exp_b, man_b) ==
    PackTriple(effective_sub_fields(sign_a, exp_a, man_a, sign_b, exp_b, man_b))

(***************************************************************************)
(* add.rs: the values norm_a, norm_b and man_c take while effective_add    *)
(* and effective_sub work on finite operands, in the order the code        *)
(* assigns them                                                            *)
(***************************************************************************)
\* the values of a sequence that were computed (a panicking subtraction
\* leaves none)
computed(vals) == { vals[i] : i \in { j \in DOMAIN vals : vals[j] # Panic } }

effective_add_significands(exp_a, man_a, exp_b, man_b) ==
    IF exp_a = exp_b
    THEN IF exp_a = 0 THEN add_equal_subnormal_values(man_a, man_b)
         ELSE add_equal_normal_values(man_a, man_b)
    ELSE add_differ_finite_steps(exp_a, man_a, exp_b, man_b).values

\* sign 0 stands for sign_a, which no value depends on
effective_sub_significands(exp_a, man_a, exp_b, man_b) ==
    IF exp_a = exp_b
    THEN IF exp_a = 0 THEN << sub_equal_subnormal(0, man_a, man_b)[3] >>
         ELSE IF man_a < man_b THEN sub_equal_normal_steps(exp_a, man_b - man_a).values
         ELSE IF man_a > man_b THEN sub_equal_normal_steps(exp_a, man_a - man_b).values
         ELSE << >>
    ELSE sub_differ_finite_steps(exp_a, man_a, exp_b, man_b).values

(***************************************************************************)
(* add.rs: softfloat_add, softfloat_sub (the sign dispatch)                *)
(***************************************************************************)
softfloat_add(x, y) ==
    LET ta == extract(x)
        tb == extract(y)
    IN  IF BitXor1(ta[1], tb[1]) = 1
        THEN effective_sub(ta[1], ta[2], ta[3], tb[1], tb[2], tb[3])
        ELSE effective_add(ta[1], ta[2], ta[3], tb[1], tb[2], tb[3])

softfloat_sub(x, y) ==
    LET ta == extract(x)
        tb == extract(y)
    IN  IF BitXor1(ta[1], tb[1]) = 1
        THEN effective_add(ta[1], ta[2], ta[3], tb[1], tb[2], tb[3])
        ELSE effective_sub(ta[1], ta[2], ta[3], tb[1], tb[2], tb[3])

(***************************************************************************)
(* lib.rs: to_hardfloat, to_flopoco                                        *)
(***************************************************************************)
\* the leading-zero count taken over the whole width idx + 2
count_leading_zeros_wide(sig_in, idx) == idx + 2 - BitLen(sig_in)

\* the loop of to_hardfloat: zero bits met from bit idx downwards before the
\* first set bit
RECURSIVE count_leading_zeros(_, _)
count_leading_zeros(sig_in, idx) ==
    IF idx < 0 THEN 0
    ELSE IF bit(sig_in, idx) = 1 THEN 0
    ELSE 1 + count_leading_zeros(sig_in, idx - 1)

\* the all-ones value of the E-bit exponent field
special_exp_field == Shl(1, EXP) - 1

\* the exponent value both translators compare exp_in with to detect inf/NaN
special_exp == Shl(1, EXP + 1) - 1

hardfloat_fields(num) ==
    LET exp_in == range(num, EXP + SIG - 2, SIG - 1)
        sig_in == range(num, SIG - 2, 0)
        is_zero_exp_in == exp_in = 0
        is_zero_sig_in == sig_in = 0
        k == EXP - 1
        pow2k == Shl(1, k)
    IN  IF is_zero_exp_in /\ is_zero_sig_in THEN << 0, 0 >>
        ELSE IF is_zero_exp_in /\ ~is_zero_sig_in
        THEN LET n == count_leading_zeros(sig_in, SIG - 2)
             IN  << usub(pow2k + 2, n), Shl(sig_in, n) >>
        ELSE IF exp_in = special_exp
        THEN IF is_zero_sig_in THEN << Shl(6, EXP - 3), 0 >>
             ELSE << Shl(7, EXP - 3), 0 >>
        ELSE << exp_in + pow2k + 1, sig_in >>

\* the sign placed on the top bit of the input instead of one above it
to_hardfloat_sign_low(num) ==
    LET sign == bit(num, EXP + SIG - 1)
        f == hardfloat_fields(num)
    IN  IF f[1] = Panic THEN Panic
        ELSE BitOr(BitOr(Shl(sign, EXP + SIG - 1), Shl(f[1], SIG - 1)), f[2])

to_hardfloat(num) ==
    LET sign == bit(num, EXP + SIG - 1)
        f == hardfloat_fields(num)
    IN  IF f[1] = Panic THEN Panic
        ELSE BitOr(BitOr(Shl(sign, EXP + SIG), Shl(f[1], SIG - 1)), f[2])

flopoco_fields(num) ==
    LET exp_in == range(num, EXP + SIG - 2, SIG - 1)
        sig_in == range(num, SIG - 2, 0)
        is_zero_exp_in == exp_in = 0
        is_zero_sig_in == sig_in = 0
    IN  IF is_zero_exp_in /\ is_zero_sig_in THEN << 0, 0, 0 >>
        ELSE IF is_zero_exp_in /\ ~is_zero_sig_in THEN << Panic, Panic, Panic >>
        ELSE IF exp_in = special_exp
        THEN IF is_zero_sig_in THEN << 2, 0, 0 >>
             ELSE << 3, 0, 0 >>
        ELSE << 1, exp_in, sig_in >>

\* the output without its sign bit
to_flopoco_unsigned(num) ==
    LET f == flopoco_fields(num)
    IN  IF f[1] = Panic THEN Panic
        ELSE BitOr(BitOr(Shl(f[1], EXP + SIG), Shl(f[2], SIG - 1)), f[3])

to_flopoco(num) ==
    LET sign == bit(num, EXP + SIG - 1)
        f == flopoco_fields(num)
    IN  IF f[1] = Panic THEN Panic
        ELSE BitOr(BitOr(BitOr(Shl(f[1], EXP + SIG), Shl(sign, EXP + SIG - 1)),
                         Shl(f[2], SIG - 1)), f[3])

(***************************************************************************)
(* floating-cli lib.rs: process_arg.  An argument is a sequence of         *)
(* characters; a number read from it is kept as its decimal digits and     *)
(* the position of the point; a line written is the pair                   *)
(* <<label, format name>>.                                                 *)
(***************************************************************************)
Ok == 0
Err == 1

DecDigits == << "0", "1", "2", "3", "4", "5", "6", "7", "8", "9" >>
HexDigits == DecDigits \o << "a", "b", "c", "d", "e", "f" >>
                       \o << "A", "B", "C", "D", "E", "F" >>

UpperLetters ==
    << "A", "B", "C", "D", "E", "F", "G", "H", "I", "J", "K", "L", "M",
       "N", "O", "P", "Q", "R", "S", "T", "U", "V", "W", "X", "Y", "Z" >>
LowerLetters ==
    << "a", "b", "c", "d", "e", "f", "g", "h", "i", "j", "k", "l", "m",
       "n", "o", "p", "q", "r", "s", "t", "u", "v", "w", "x", "y", "z" >>

to_ascii_lowercase(c) ==
    IF \E i \in 1 .. Len(UpperLetters) : UpperLetters[i] = c
    THEN LowerLetters[CHOOSE i \in 1 .. Len(UpperLetters) : UpperLetters[i] = c]
    ELSE c

is_digit(c, digits) == \E i \in 1 .. Len(digits) : digits[i] = c
digit_value(c) == (CHOOSE i \in 1 .. Len(DecDigits) : DecDigits[i] = c) - 1
all_digits(s, digits) == \A i \in 1 .. Len(s) : is_digit(s[i], digits)

\* the decimal digits of a text of digits, leading zeros dropped
RECURSIVE skip_zeros(_)
skip_zeros(ds) ==
    IF Len(ds) > 0 /\ ds[1] = 0 THEN skip_zeros(Tail(ds)) ELSE ds

digits_of(s) == skip_zeros([ i \in 1 .. Len(s) |-> digit_value(s[i]) ])

\* -1, 0, 1 as the fraction 0.x is below, equal to or above the fraction
\* 0.y, compared from digit i on
RECURSIVE cmp_digits(_, _, _)
cmp_digits(x, y, i) ==
    IF i > Len(x) /\ i > Len(y) THEN 0
    ELSE LET dx == IF i <= Len(x) THEN x[i] ELSE 0
             dy == IF i <= Len(y) THEN y[i] ELSE 0
         IN  IF dx < dy THEN -1
             ELSE IF dx > dy THEN 1
             ELSE cmp_digits(x, y, i + 1)

\* the position of the first c in s, Len(s) + 1 when there is none
RECURSIVE find(_, _, _)
find(s, c, i) ==
    IF i > Len(s) THEN i
    ELSE IF s[i] = c THEN i
    ELSE find(s, c, i + 1)

starts_with_0x(s) == Len(s) >= 2 /\ s[1] = "0" /\ s[2] = "x"

\* str::trim_start_matches("0x"): every leading repetition is removed
RECURSIVE trim_start_matches_0x(_)
trim_start_matches_0x(s) ==
    IF starts_with_0x(s) THEN trim_start_matches_0x(SubSeq(s, 3, Len(s)))
    ELSE s

\* BigUint::parse_bytes(s, radix) is Some: one leading + is dropped unless
\* a second + follows, the rest is not empty, does not start with _ and is
\* made of digits of the radix and of _
parse_bytes_is_some(s, digits) ==
    LET t == IF Len(s) > 0 /\ s[1] = "+" /\ ~(Len(s) > 1 /\ s[2] = "+")
             THEN Tail(s) ELSE s
    IN  /\ Len(t) > 0
        /\ t[1] # "_"
        /\ \A i \in 1 .. Len(t) : t[i] = "_" \/ is_digit(t[i], digits)

\* the digits of u64::MAX
U64MaxDigits == << 1, 8, 4, 4, 6, 7, 4, 4, 0, 7, 3, 7, 0, 9, 5, 5, 1, 6, 1, 5 >>

\* the digits of the u64 that arg.parse::<u64>() reads: a + before at least
\* one more character is dropped, the rest is decimal digits
u64_text(s) == IF Len(s) > 1 /\ s[1] = "+" THEN Tail(s) ELSE s

\* arg.parse::<u64>() is Ok: digits only, and a value up to u64::MAX
parse_u64_is_ok(s) ==
    LET t == u64_text(s)
    IN  /\ Len(t) > 0
        /\ all_digits(t, DecDigits)
        /\ \/ Len(digits_of(t)) < Len(U64MaxDigits)
           \/ /\ Len(digits_of(t)) = Len(U64MaxDigits)
              /\ cmp_digits(digits_of(t), U64MaxDigits, 1) <= 0

\* a number is 0.d1 d2 ... * 10^pt with d1 # 0 (no digits: zero), or one of
\* the special values
NotANumber == [ ok |-> FALSE, special |-> "none", digits |-> << >>, pt |-> 0 ]
Number(special, ds, e10) ==
    [ ok |-> TRUE, special |-> special, digits |-> skip_zeros(ds),
      pt |-> Len(skip_zeros(ds)) + e10 ]

\* the exponent read by parse::<f64>: digits are taken in while the value is
\* below 0x10000
RECURSIVE exp_number(_, _)
exp_number(s, acc) ==
    IF Len(s) = 0 THEN acc
    ELSE exp_number(Tail(s), IF acc < 65536 THEN 10 * acc + digit_value(s[1]) ELSE acc)

\* arg.parse::<f64>(): [+|-] ( digits [. digits] [e [+|-] digits]
\* | inf | infinity | nan ), with a digit on at least one side of the
\* point, letters in either case
parse_f64(s) ==
    LET signed == Len(s) > 0 /\ (s[1] = "-" \/ s[1] = "+")
        body0 == IF signed THEN Tail(s) ELSE s
        body == [ i \in 1 .. Len(body0) |-> to_ascii_lowercase(body0[i]) ]
        epos == find(body, "e", 1)
        mant == SubSeq(body, 1, epos - 1)
        has_exp == epos <= Len(body)
        exp0 == SubSeq(body, epos + 1, Len(body))
        exp_signed == Len(exp0) > 0 /\ (exp0[1] = "-" \/ exp0[1] = "+")
        exp_neg == Len(exp0) > 0 /\ exp0[1] = "-"
        exp_digits == IF exp_signed THEN Tail(exp0) ELSE exp0
        dpos == find(mant, ".", 1)
        int_part == SubSeq(mant, 1, dpos - 1)
        frac_part == SubSeq(mant, dpos + 1, Len(mant))
        mant_ok == /\ Len(int_part) + Len(frac_part) > 0
                   /\ all_digits(int_part, DecDigits)
                   /\ all_digits(frac_part, DecDigits)
        exp_ok == ~has_exp \/ (Len(exp_digits) > 0 /\ all_digits(exp_digits, DecDigits))
        exp_value == IF ~has_exp THEN 0
                     ELSE IF exp_neg THEN - exp_number(exp_digits, 0)
                     ELSE exp_number(exp_digits, 0)
    IN  IF mant_ok /\ exp_ok
        THEN Number("none",
                    [ i \in 1 .. Len(int_part \o frac_part) |->
                        digit_value((int_part \o frac_part)[i]) ],
                    exp_value - Len(frac_part))
        ELSE IF body = << "i", "n", "f" >>
                \/ body = << "i", "n", "f", "i", "n", "i", "t", "y" >>
        THEN Number("inf", << >>, 0)
        ELSE IF body = << "n", "a", "n" >> THEN Number("nan", << >>, 0)
        ELSE NotANumber

\* num as f64 of the integer read by parse::<u64>
u64_as_f64(s) == Number("none", digits_of(u64_text(s)), 0)

\* the number is above the boundary (or on it, when the boundary is inclusive)
at_least(num, bound) ==
    IF Len(num.digits) = 0 THEN FALSE
    ELSE IF num.pt # bound.pt THEN num.pt > bound.pt
    ELSE LET c == cmp_digits(num.digits, bound.digits, 1)
         IN  c > 0 \/ (c = 0 /\ bound.inclusive)

(***************************************************************************)
(* The decimal boundaries of the classes.  The text is rounded to the      *)
(* nearest f64 (ties to even); num as f32 rounds the f64 to the nearest    *)
(* f32.  f16::from_f64 is made by the half crate in one of three ways,     *)
(* chosen by the target and the processor the program runs on:             *)
(*   "fp16"      the f64 is rounded to the nearest f16 in one step         *)
(*               (aarch64 with fp16);                                      *)
(*   "f16c"      the f64 is rounded to the nearest f32 and the f32 to the  *)
(*               nearest f16 (x86 with F16C);                              *)
(*   "fallback"  the low 32 bits of the f64 are dropped and the remaining  *)
(*               20 mantissa bits are rounded to the nearest f16 (every    *)
(*               other target).                                            *)
(* The numbers that become non-zero, normal or infinite in a format are    *)
(* those above (or from) a boundary that is a finite decimal               *)
(* 0.d1 d2 ... * 10^pt:                                                    *)
(*   f16, fp16:     2^-25 + 2^-78,   (2^11 - 1) * 2^-25 - 2^-68,           *)
(*                  65520 - 2^-38                                          *)
(*   f16, f16c:     2^-25 + 2^-49 + 2^-78,                                 *)
(*                  (2^11 - 1) * 2^-25 - 2^-39 - 2^-68,                    *)
(*                  65520 - 2^-9 - 2^-38                                   *)
(*   f16, fallback: 2^-25 + 2^-45 - 2^-78, then as fp16                    *)
(*   f32: 2^-150 + 2^-203, (2^24 - 1) * 2^-150 - 2^-180,                   *)
(*        2^128 - 2^103 - 2^74                                             *)
(*   f64: 2^-1075,         (2^53 - 1) * 2^-1075,         2^1024 - 2^970    *)
(***************************************************************************)
F16Paths == { "fp16", "f16c", "fallback" }

F16_fp16_nonzero ==
    [ pt |-> -7, inclusive |-> FALSE,
      digits |-> <<
        2, 9, 8, 0, 2, 3, 2, 2, 3, 8, 7, 6, 9, 5, 3, 1, 5, 8, 0, 8, 7, 2, 2,
        4, 5, 0, 2, 1, 2, 1, 1, 0, 6, 9, 9, 4, 8, 5, 6, 3, 4, 7, 6, 8, 2, 7,
        9, 8, 5, 1, 4, 1, 4, 2, 6, 3, 2, 4, 8, 4, 4, 3, 6, 0, 3, 5, 1, 5, 6,
        2, 5 >> ]

F16_fp16_normal ==
    [ pt |-> -4, inclusive |-> TRUE,
      digits |-> <<
        6, 1, 0, 0, 5, 3, 5, 3, 9, 2, 7, 6, 1, 2, 3, 0, 1, 2, 9, 9, 3, 6, 8,
        2, 1, 0, 9, 8, 2, 7, 9, 8, 6, 4, 3, 7, 2, 6, 7, 0, 9, 9, 9, 7, 2, 8,
        1, 4, 3, 2, 1, 5, 1, 7, 9, 4, 4, 3, 3, 5, 9, 3, 7, 5 >> ]

F16_fp16_infinite ==
    [ pt |-> 5, inclusive |-> TRUE,
      digits |-> <<
        6, 5, 5, 1, 9, 9, 9, 9, 9, 9, 9, 9, 9, 9, 9, 9, 6, 3, 6, 2, 0, 2, 1,
        1, 9, 2, 9, 0, 8, 2, 8, 7, 0, 4, 8, 3, 3, 9, 8, 4, 3, 7, 5 >> ]

F32_nonzero ==
    [ pt |-> -45, inclusive |-> FALSE,
      digits |-> <<
        7, 0, 0, 6, 4, 9, 2, 3, 2, 1, 6, 2, 4, 0, 8, 6, 1, 3, 2, 4, 9, 5, 5,
        5, 7, 6, 4, 9, 0, 9, 2, 2, 9, 4, 0, 4, 9, 4, 0, 9, 3, 1, 6, 4, 3, 1,
        8, 9, 8, 1, 0, 8, 9, 3, 2, 5, 6, 6, 8, 6, 2, 5, 0, 9, 5, 9, 4, 8, 4,
        7, 0, 5, 1, 0, 6, 8, 8, 7, 9, 8, 5, 6, 1, 4, 5, 5, 4, 5, 1, 9, 6, 2,
        3, 3, 5, 3, 8, 0, 5, 8, 1, 4, 9, 3, 5, 2, 8, 9, 0, 7, 1, 4, 2, 0, 2,
        1, 1, 9, 6, 2, 0, 8, 2, 3, 6, 9, 4, 3, 9, 0, 3, 1, 0, 2, 6, 5, 5, 8,
        9, 5, 0, 5, 4, 3, 4, 0, 3, 6, 2, 5, 4, 8, 8, 2, 8, 1, 2, 5 >> ]

F32_normal ==
    [ pt |-> -37, inclusive |-> TRUE,
      digits |-> <<
        1, 1, 7, 5, 4, 9, 4, 2, 8, 0, 7, 5, 7, 3, 6, 4, 2, 2, 6, 4, 7, 4, 8,
        3, 8, 3, 1, 1, 0, 5, 0, 5, 2, 1, 2, 4, 6, 2, 1, 9, 9, 1, 7, 9, 0, 0,
        1, 9, 3, 5, 1, 4, 8, 7, 0, 6, 7, 1, 3, 2, 0, 5, 3, 7, 7, 3, 5, 3, 3,
        7, 5, 8, 7, 3, 7, 8, 8, 0, 8, 4, 8, 3, 8, 6, 1, 2, 9, 9, 9, 7, 9, 6,
        9, 3, 2, 2, 8, 3, 0, 9, 6, 6, 4, 9, 5, 9, 6, 2, 9, 8, 9, 8, 8, 1, 7,
        1, 8, 3, 8, 5, 7, 3, 1, 8, 0, 1, 3, 9, 0, 6, 4, 7, 8, 8, 8, 1, 8, 3,
        5, 9, 3, 7, 5 >> ]

F32_infinite ==
    [ pt |-> 39, inclusive |-> TRUE,
      digits |-> <<
        3, 4, 0, 2, 8, 2, 3, 5, 6, 7, 7, 9, 7, 3, 3, 6, 4, 2, 7, 4, 8, 0, 7,
        3, 4, 6, 3, 9, 7, 9, 5, 6, 1, 7, 1, 3, 6, 6, 4 >> ]

F64_nonzero ==
    [ pt |-> -323, inclusive |-> FALSE,
      digits |-> <<
        2, 4, 7, 0, 3, 2, 8, 2, 2, 9, 2, 0, 6, 2, 3, 2, 7, 2, 0, 8, 8, 2, 8,
        4, 3, 9, 6, 4, 3, 4, 1, 1, 0, 6, 8, 6, 1, 8, 2, 5, 2, 9, 9, 0, 1, 3,
        0, 7, 1, 6, 2, 3, 8, 2, 2, 1, 2, 7, 9, 2, 8, 4, 1, 2, 5, 0, 3, 3, 7,
        7, 5, 3, 6, 3, 5, 1, 0, 4, 3, 7, 5, 9, 3, 2, 6, 4, 9, 9, 1, 8, 1, 8,
        0, 8, 1, 7, 9, 9, 6, 1, 8, 9, 8, 9, 8, 2, 8, 2, 3, 4, 7, 7, 2, 2, 8,
        5, 8, 8, 6, 5, 4, 6, 3, 3, 2, 8, 3, 5, 5, 1, 7, 7, 9, 6, 9, 8, 9, 8,
        1, 9, 9, 3, 8, 7, 3, 9, 8, 0, 0, 5, 3, 9, 0, 9, 3, 9, 0, 6, 3, 1, 5,
        0, 3, 5, 6, 5, 9, 5, 1, 5, 5, 7, 0, 2, 2, 6, 3, 9, 2, 2, 9, 0, 8, 5,
        8, 3, 9, 2, 4, 4, 9, 1, 0, 5, 1, 8, 4, 4, 3, 5, 9, 3, 1, 8, 0, 2, 8,
        4, 9, 9, 3, 6, 5, 3, 6, 1, 5, 2, 5, 0, 0, 3, 1, 9, 3, 7, 0, 4, 5, 7,
        6, 7, 8, 2, 4, 9, 2, 1, 9, 3, 6, 5, 6, 2, 3, 6, 6, 9, 8, 6, 3, 6, 5,
        8, 4, 8, 0, 7, 5, 7, 0, 0, 1, 5, 8, 5, 7, 6, 9, 2, 6, 9, 9, 0, 3, 7,
        0, 6, 3, 1, 1, 9, 2, 8, 2, 7, 9, 5, 5, 8, 5, 5, 1, 3, 3, 2, 9, 2, 7,
        8, 3, 4, 3, 3, 8, 4, 0, 9, 3, 5, 1, 9, 7, 8, 0, 1, 5, 5, 3, 1, 2, 4,
        6, 5, 9, 7, 2, 6, 3, 5, 7, 9, 5, 7, 4, 6, 2, 2, 7, 6, 6, 4, 6, 5, 2,
        7, 2, 8, 2, 7, 2, 2, 0, 0, 5, 6, 3, 7, 4, 0, 0, 6, 4, 8, 5, 4, 9, 9,
        9, 7, 7, 0, 9, 6, 5, 9, 9, 4, 7, 0, 4, 5, 4, 0, 2, 0, 8, 2, 8, 1, 6,
        6, 2, 2, 6, 2, 3, 7, 8, 5, 7, 3, 9, 3, 4, 5, 0, 7, 3, 6, 3, 3, 9, 0,
        0, 7, 9, 6, 7, 7, 6, 1, 9, 3, 0, 5, 7, 7, 5, 0, 6, 7, 4, 0, 1, 7, 6,
        3, 2, 4, 6, 7, 3, 6, 0, 0, 9, 6, 8, 9, 5, 1, 3, 4, 0, 5, 3, 5, 5, 3,
        7, 4, 5, 8, 5, 1, 6, 6, 6, 1, 1, 3, 4, 2, 2, 3, 7, 6, 6, 6, 7, 8, 6,
        0, 4, 1, 6, 2, 1, 5, 9, 6, 8, 0, 4, 6, 1, 9, 1, 4, 4, 6, 7, 2, 9, 1,
        8, 4, 0, 3, 0, 0, 5, 3, 0, 0, 5, 7, 5, 3, 0, 8, 4, 9, 0, 4, 8, 7, 6,
        5, 3, 9, 1, 7, 1, 1, 3, 8, 6, 5, 9, 1, 6, 4, 6, 2, 3, 9, 5, 2, 4, 9,
        1, 2, 6, 2, 3, 6, 5, 3, 8, 8, 1, 8, 7, 9, 6, 3, 6, 2, 3, 9, 3, 7, 3,
        2, 8, 0, 4, 2, 3, 8, 9, 1, 0, 1, 8, 6, 7, 2, 3, 4, 8, 4, 9, 7, 6, 6,
        8, 2, 3, 5, 0, 8, 9, 8, 6, 3, 3, 8, 8, 5, 8, 7, 9, 2, 5, 6, 2, 8, 3,
        0, 2, 7, 5, 5, 9, 9, 5, 6, 5, 7, 5, 2, 4, 4, 5, 5, 5, 0, 7, 2, 5, 5,
        1, 8, 9, 3, 1, 3, 6, 9, 0, 8, 3, 6, 2, 5, 4, 7, 7, 9, 1, 8, 6, 9, 4,
        8, 6, 6, 7, 9, 9, 4, 9, 6, 8, 3, 2, 4, 0, 4, 9, 7, 0, 5, 8, 2, 1, 0,
        2, 8, 5, 1, 3, 1, 8, 5, 4, 5, 1, 3, 9, 6, 2, 1, 3, 8, 3, 7, 7, 2, 2,
        8, 2, 6, 1, 4, 5, 4, 3, 7, 6, 9, 3, 4, 1, 2, 5, 3, 2, 0, 9, 8, 5, 9,
        1, 3, 2, 7, 6, 6, 7, 2, 3, 6, 3, 2, 8, 1, 2, 5 >> ]

F64_normal ==
    [ pt |-> -307, inclusive |-> TRUE,
      digits |-> <<
        2, 2, 2, 5, 0, 7, 3, 8, 5, 8, 5, 0, 7, 2, 0, 1, 1, 3, 6, 0, 5, 7, 4,
        0, 9, 7, 9, 6, 7, 0, 9, 1, 3, 1, 9, 7, 5, 9, 3, 4, 8, 1, 9, 5, 4, 6,
        3, 5, 1, 6, 4, 5, 6, 4, 8, 0, 2, 3, 4, 2, 6, 1, 0, 9, 7, 2, 4, 8, 2,
        2, 2, 2, 2, 0, 2, 1, 0, 7, 6, 9, 4, 5, 5, 1, 6, 5, 2, 9, 5, 2, 3, 9,
        0, 8, 1, 3, 5, 0, 8, 7, 9, 1, 4, 1, 4, 9, 1, 5, 8, 9, 1, 3, 0, 3, 9,
        6, 2, 1, 1, 0, 6, 8, 7, 0, 0, 8, 6, 4, 3, 8, 6, 9, 4, 5, 9, 4, 6, 4,
        5, 5, 2, 7, 6, 5, 7, 2, 0, 7, 4, 0, 7, 8, 2, 0, 6, 2, 1, 7, 4, 3, 3,
        7, 9, 9, 8, 8, 1, 4, 1, 0, 6, 3, 2, 6, 7, 3, 2, 9, 2, 5, 3, 5, 5, 2,
        2, 8, 6, 8, 8, 1, 3, 7, 2, 1, 4, 9, 0, 1, 2, 9, 8, 1, 1, 2, 2, 4, 5,
        1, 4, 5, 1, 8, 8, 9, 8, 4, 9, 0, 5, 7, 2, 2, 2, 3, 0, 7, 2, 8, 5, 2,
        5, 5, 1, 3, 3, 1, 5, 5, 7, 5, 5, 0, 1, 5, 9, 1, 4, 3, 9, 7, 4, 7, 6,
        3, 9, 7, 9, 8, 3, 4, 1, 1, 8, 0, 1, 9, 9, 9, 3, 2, 3, 9, 6, 2, 5, 4,
        8, 2, 8, 9, 0, 1, 7, 1, 0, 7, 0, 8, 1, 8, 5, 0, 6, 9, 0, 6, 3, 0, 6,
        6, 6, 6, 5, 5, 9, 9, 4, 9, 3, 8, 2, 7, 5, 7, 7, 2, 5, 7, 2, 0, 1, 5,
        7, 6, 3, 0, 6, 2, 6, 9, 0, 6, 6, 3, 3, 3, 2, 6, 4, 7, 5, 6, 5, 3, 0,
        0, 0, 0, 9, 2, 4, 5, 8, 8, 8, 3, 1, 6, 4, 3, 3, 0, 3, 7, 7, 7, 9, 7,
        9, 1, 8, 6, 9, 6, 1, 2, 0, 4, 9, 4, 9, 7, 3, 9, 0, 3, 7, 7, 8, 2, 9,
        7, 0, 4, 9, 0, 5, 0, 5, 1, 0, 8, 0, 6, 0, 9, 9, 4, 0, 7, 3, 0, 2, 6,
        2, 9, 3, 7, 1, 2, 8, 9, 5, 8, 9, 5, 0, 0, 0, 3, 5, 8, 3, 7, 9, 9, 9,
        6, 7, 2, 0, 7, 2, 5, 4, 3, 0, 4, 3, 6, 0, 2, 8, 4, 0, 7, 8, 8, 9, 5,
        7, 7, 1, 7, 9, 6, 1, 5, 0, 9, 4, 5, 5, 1, 6, 7, 4, 8, 2, 4, 3, 4, 7,
        1, 0, 3, 0, 7, 0, 2, 6, 0, 9, 1, 4, 4, 6, 2, 1, 5, 7, 2, 2, 8, 9, 8,
        8, 0, 2, 5, 8, 1, 8, 2, 5, 4, 5, 1, 8, 0, 3, 2, 5, 7, 0, 7, 0, 1, 8,
        8, 6, 0, 8, 7, 2, 1, 1, 3, 1, 2, 8, 0, 7, 9, 5, 1, 2, 2, 3, 3, 4, 2,
        6, 2, 8, 8, 3, 6, 8, 6, 2, 2, 3, 2, 1, 5, 0, 3, 7, 7, 5, 6, 6, 6, 6,
        2, 2, 5, 0, 3, 9, 8, 2, 5, 3, 4, 3, 3, 5, 9, 7, 4, 5, 6, 8, 8, 8, 4,
        4, 2, 3, 9, 0, 0, 2, 6, 5, 4, 9, 8, 1, 9, 8, 3, 8, 5, 4, 8, 7, 9, 4,
        8, 2, 9, 2, 2, 0, 6, 8, 9, 4, 7, 2, 1, 6, 8, 9, 8, 3, 1, 0, 9, 9, 6,
        9, 8, 3, 6, 5, 8, 4, 6, 8, 1, 4, 0, 2, 2, 8, 5, 4, 2, 4, 3, 3, 3, 0,
        6, 6, 0, 3, 3, 9, 8, 5, 0, 8, 8, 6, 4, 4, 5, 8, 0, 4, 0, 0, 1, 0, 3,
        4, 9, 3, 3, 9, 7, 0, 4, 2, 7, 5, 6, 7, 1, 8, 6, 4, 4, 3, 3, 8, 3, 7,
        7, 0, 4, 8, 6, 0, 3, 7, 8, 6, 1, 6, 2, 2, 7, 7, 1, 7, 3, 8, 5, 4, 5,
        6, 2, 3, 0, 6, 5, 8, 7, 4, 6, 7, 9, 0, 1, 4, 0, 8, 6, 7, 2, 3, 3, 2,
        7, 6, 3, 6, 7, 1, 8, 7, 5 >> ]

F64_infinite ==
    [ pt |-> 309, inclusive |-> TRUE,
      digits |-> <<
        1, 7, 9, 7, 6, 9, 3, 1, 3, 4, 8, 6, 2, 3, 1, 5, 8, 0, 7, 9, 3, 7, 2,
        8, 9, 7, 1, 4, 0, 5, 3, 0, 3, 4, 1, 5, 0, 7, 9, 9, 3, 4, 1, 3, 2, 7,
        1, 0, 0, 3, 7, 8, 2, 6, 9, 3, 6, 1, 7, 3, 7, 7, 8, 9, 8, 0, 4, 4, 4,
        9, 6, 8, 2, 9, 2, 7, 6, 4, 7, 5, 0, 9, 4, 6, 6, 4, 9, 0, 1, 7, 9, 7,
        7, 5, 8, 7, 2, 0, 7, 0, 9, 6, 3, 3, 0, 2, 8, 6, 4, 1, 6, 6, 9, 2, 8,
        8, 7, 9, 1, 0, 9, 4, 6, 5, 5, 5, 5, 4, 7, 8, 5, 1, 9, 4, 0, 4, 0, 2,
        6, 3, 0, 6, 5, 7, 4, 8, 8, 6, 7, 1, 5, 0, 5, 8, 2, 0, 6, 8, 1, 9, 0,
        8, 9, 0, 2, 0, 0, 0, 7, 0, 8, 3, 8, 3, 6, 7, 6, 2, 7, 3, 8, 5, 4, 8,
        4, 5, 8, 1, 7, 7, 1, 1, 5, 3, 1, 7, 6, 4, 4, 7, 5, 7, 3, 0, 2, 7, 0,
        0, 6, 9, 8, 5, 5, 5, 7, 1, 3, 6, 6, 9, 5, 9, 6, 2, 2, 8, 4, 2, 9, 1,
        4, 8, 1, 9, 8, 6, 0, 8, 3, 4, 9, 3, 6, 4, 7, 5, 2, 9, 2, 7, 1, 9, 0,
        7, 4, 1, 6, 8, 4, 4, 4, 3, 6, 5, 5, 1, 0, 7, 0, 4, 3, 4, 2, 7, 1, 1,
        5, 5, 9, 6, 9, 9, 5, 0, 8, 0, 9, 3, 0, 4, 2, 8, 8, 0, 1, 7, 7, 9, 0,
        4, 1, 7, 4, 4, 9, 7, 7, 9, 2 >> ]

F16_f16c_nonzero ==
    [ pt |-> -7, inclusive |-> FALSE,
      digits |-> <<
        2, 9, 8, 0, 2, 3, 2, 4, 1, 6, 4, 0, 5, 2, 1, 5, 5, 2, 0, 8, 9, 7, 2,
        9, 1, 4, 8, 8, 9, 9, 2, 1, 3, 6, 8, 4, 3, 0, 9, 4, 7, 2, 6, 8, 2, 7,
        9, 8, 5, 1, 4, 1, 4, 2, 6, 3, 2, 4, 8, 4, 4, 3, 6, 0, 3, 5, 1, 5, 6,
        2, 5 >> ]

F16_f16c_normal ==
    [ pt |-> -4, inclusive |-> TRUE,
      digits |-> <<
        6, 1, 0, 0, 5, 3, 5, 2, 1, 0, 8, 6, 2, 2, 8, 9, 7, 7, 5, 3, 5, 1, 1,
        7, 3, 5, 1, 5, 2, 7, 2, 0, 5, 1, 8, 7, 2, 6, 7, 0, 9, 9, 9, 7, 2, 8,
        1, 4, 3, 2, 1, 5, 1, 7, 9, 4, 4, 3, 3, 5, 9, 3, 7, 5 >> ]

F16_f16c_infinite ==
    [ pt |-> 5, inclusive |-> TRUE,
      digits |-> <<
        6, 5, 5, 1, 9, 9, 9, 8, 0, 4, 6, 8, 7, 4, 9, 9, 6, 3, 6, 2, 0, 2, 1,
        1, 9, 2, 9, 0, 8, 2, 8, 7, 0, 4, 8, 3, 3, 9, 8, 4, 3, 7, 5 >> ]

F16_fallback_nonzero ==
    [ pt |-> -7, inclusive |-> TRUE,
      digits |-> <<
        2, 9, 8, 0, 2, 3, 5, 0, 8, 0, 9, 4, 0, 4, 7, 3, 9, 5, 9, 5, 2, 8, 4,
        9, 8, 4, 6, 3, 2, 8, 6, 0, 0, 0, 3, 6, 3, 9, 3, 6, 5, 2, 3, 1, 7, 2,
        0, 1, 4, 8, 5, 8, 5, 7, 3, 6, 7, 5, 1, 5, 5, 6, 3, 9, 6, 4, 8, 4, 3,
        7, 5 >> ]

\* from the least normal number on, the fallback rounds as fp16 does
F16_fallback_normal == F16_fp16_normal
F16_fallback_infinite == F16_fp16_infinite

F16(path) ==
    IF path = "f16c"
    THEN [ NAME |-> "f16", nonzero |-> F16_f16c_nonzero,
           normal |-> F16_f16c_normal, infinite |-> F16_f16c_infinite ]
    ELSE IF path = "fallback"
    THEN [ NAME |-> "f16", nonzero |-> F16_fallback_nonzero,
           normal |-> F16_fallback_normal, infinite |-> F16_fallback_infinite ]
    ELSE [ NAME |-> "f16", nonzero |-> F16_fp16_nonzero,
           normal |-> F16_fp16_normal, infinite |-> F16_fp16_infinite ]
F32 == [ NAME |-> "f32", nonzero |-> F32_nonzero,
         normal |-> F32_normal, infinite |-> F32_infinite ]
F64 == [ NAME |-> "f64", nonzero |-> F64_nonzero,
         normal |-> F64_normal, infinite |-> F64_infinite ]

\* the class of the number after f16::from_f64 / as f32 / f64
class_in(fmt, num) ==
    IF num.special = "inf" THEN "Infinite"
    ELSE IF num.special = "nan" THEN "Nan"
    ELSE IF ~at_least(num, fmt.nonzero) THEN "Zero"
    ELSE IF ~at_least(num, fmt.normal) THEN "Subnormal"
    ELSE IF ~at_least(num, fmt.infinite) THEN "Normal"
    ELSE "Infinite"

\* a pattern of the class: the branches of to_hardfloat and to_flopoco look
\* at exp_in = 0, exp_in = special_exp and sig_in = 0 only
class_bits(cls) ==
    IF cls = "Zero" THEN pack(0, 0, 0)
    ELSE IF cls = "Subnormal" THEN pack(0, 0, 1)
    ELSE IF cls = "Infinite" THEN pack(0, max_exp, 0)
    ELSE IF cls = "Nan" THEN pack(0, max_exp, Shl(1, SIG - 2))
    ELSE pack(0, bias, 0)

Written(lines) == [ lines |-> lines, status |-> Ok ]

\* both translations are made before the first line is written
float_to_hex_inner(fmt, num) ==
    LET bits == class_bits(class_in(fmt, num))
    IN  IF to_hardfloat(bits) = Panic \/ to_flopoco(bits) = Panic
        THEN [ lines |-> << >>, status |-> Panic ]
        ELSE Written(<< << "", fmt.NAME >>, << "h", fmt.NAME >>, << "fpc", fmt.NAME >> >>)

float_to_hex(num, path) ==
    LET header == << << "float -> hex:", "" >> >>
        r16 == float_to_hex_inner(F16(path), num)
        r32 == float_to_hex_inner(F32, num)
        r64 == float_to_hex_inner(F64, num)
    IN  IF r16.status # Ok THEN [ lines |-> header, status |-> r16.status ]
        ELSE IF r32.status # Ok
        THEN [ lines |-> header \o r16.lines, status |-> r32.status ]
        ELSE IF r64.status # Ok
        THEN [ lines |-> header \o r16.lines \o r32.lines, status |-> r64.status ]
        ELSE Written(header \o r16.lines \o r32.lines \o r64.lines)

hex_to_float ==
    << << "hex -> float:", "" >>, << "hex", "" >>,
       << "", "f16" >>, << "", F32.NAME >>, << "", F64.NAME >> >>

process_arg(s, path) ==
    LET echo == << << "echo", "" >> >>
    IN  IF starts_with_0x(s)
        THEN IF parse_bytes_is_some(trim_start_matches_0x(s), HexDigits)
             THEN Written(echo \o hex_to_float)
             ELSE Written(echo)
        ELSE IF parse_u64_is_ok(s)
        THEN LET hex == IF parse_bytes_is_some(s, DecDigits) THEN hex_to_float ELSE << >>
                 r == float_to_hex(u64_as_f64(s), path)
             IN  [ lines |-> echo \o hex \o r.lines, status |-> r.status ]
        ELSE LET num == parse_f64(s)
             IN  IF ~num.ok THEN [ lines |-> echo, status |-> Err ]
                 ELSE LET r == float_to_hex(num, path)
                      IN  [ lines |-> echo \o r.lines, status |-> r.status ]

(***************************************************************************)
(* Arguments of the calls.                                                 *)
(***************************************************************************)
\* exponent and mantissa fields of the operand pairs of add/sub: the low,
\* middle and high end of each field
PairExps == (0 .. ExpSpan) \cup ((bias - ExpSpan) .. bias)
            \cup ((max_exp - ExpSpan) .. max_exp)

PairMans == (0 .. ManSpan)
            \cup ((Shl(1, SIG - 2) - ManSpan) .. (Shl(1, SIG - 2) + ManSpan))
            \cup ((norm_bit - 1 - ManSpan) .. (norm_bit - 1))

PairPatterns == { pack(s, e, m) : s \in 0 .. 1, e \in PairExps, m \in PairMans }

\* arguments of the one-operand functions: every exponent, and for every
\* bit position i the mantissas 2^i, 2^i + 1 and 2^(i+1) - 1
UnaryMans == {0} \cup UNION { { Shl(1, i), Shl(1, i) + 1, Shl(1, i + 1) - 1 } \cap
                              (0 .. (norm_bit - 1)) : i \in 0 .. (SIG - 2) }

UnaryPatterns == { pack(s, e, m) : s \in 0 .. 1, e \in 0 .. max_exp, m \in UnaryMans }

\* fields handed to pack: in range and just out of range
FieldSigns == 0 .. Shl(1, 1)
FieldExps == { 0, 1, bias, max_exp - 1, max_exp, max_exp + 1 }
FieldMans == { 0, 1, Shl(1, SIG - 2), norm_bit - 1, norm_bit, norm_bit + 1 }

\* numbers and bit indices handed to range
RangeNums == { 0, Shl(1, WIDTH) - 1, pack(0, bias, 1), pack(1, 1, norm_bit - 1) }
RangeIdx == 0 .. (WIDTH - 1)

\* the pattern x with its sign bit flipped
flip_sign(x) == pack(1 - bit(x, WIDTH - 1), range(x, WIDTH - 2, SIG - 1), range(x, SIG - 2, 0))

\* operand pairs: every pair of sampled patterns, and every pattern of
\* UnaryPatterns paired with a zero, with itself and with its negation
InitPair ==
    /\ kind = "pair"
    /\ \/ a \in PairPatterns /\ b \in PairPatterns
       \/ /\ a \in UnaryPatterns
          /\ b \in { pack(0, 0, 0), pack(1, 0, 0), a, flip_sign(a) }
    /\ fsign = 0 /\ fexp = 0 /\ fman = 0 /\ upper = 0 /\ lower = 0

InitBits ==
    /\ kind = "bits"
    /\ a \in UnaryPatterns /\ b = 0
    /\ fsign = 0 /\ fexp = 0 /\ fman = 0 /\ upper = 0 /\ lower = 0

InitFields ==
    /\ kind = "fields"
    /\ a = 0 /\ b = 0
    /\ fsign \in FieldSigns /\ fexp \in FieldExps /\ fman \in FieldMans
    /\ upper = 0 /\ lower = 0

InitRange ==
    /\ kind = "range"
    /\ a \in RangeNums /\ b = 0
    /\ fsign = 0 /\ fexp = 0 /\ fman = 0
    /\ upper \in RangeIdx /\ lower \in RangeIdx

\* command-line arguments: hexadecimal ones, decimal ones made of a sign, a
\* mantissa and an exponent part, the special values, and texts that are
\* no number
HexTexts ==
    { << "0", "x" >> \o t :
        t \in { << >>, << "0" >>, << "1", "e", "5" >>,
                << "7", "c", "0", "0" >>, << "z" >>, << "0", "x", "f" >>,
                << "-", "1" >>, << "F", "F" >>, << "A" >>,
                << "A", "b", "C" >>, << "+", "1" >>, << "+", "+", "1" >>,
                << "1", "_", "0" >>, << "_", "1" >>, << "+" >>,
                << "+", "_", "1" >>, << "1", "_" >>, << "g" >> } }

SignTexts == { << >>, << "-" >>, << "+" >> }

MantTexts ==
    { << >>, << "0" >>, << "1" >>, << "5" >>, << "9" >>, << "0", "7" >>,
      << "1", ".", "5" >>, << ".", "5" >>, << "1", "." >>, << "." >>,
      << "6", "5", "5", "1", "9" >>, << "6", "5", "5", "2", "0" >> }

ExpTexts ==
    { << >>, << "e" >>, << "e", "-" >>, << "e", "z" >>,
      << "e", "0" >>, << "e", "4" >>, << "e", "5" >>,
      << "E", "5" >>, << "e", "+", "5" >>, << "E", "-", "5" >>,
      << "e", "-", "5" >>, << "e", "-", "7" >>, << "e", "-", "8" >>,
      << "e", "3", "8" >>, << "e", "3", "9" >>,
      << "e", "-", "3", "8" >>, << "e", "-", "4", "0" >>, << "e", "-", "4", "6" >>,
      << "e", "3", "0", "8" >>, << "e", "3", "0", "9" >>,
      << "e", "-", "3", "0", "8" >>, << "e", "-", "3", "1", "0" >>,
      << "e", "-", "3", "2", "4" >>, << "e", "-", "3", "3", "0" >> }

DecimalTexts == { sg \o mt \o ex : sg \in SignTexts, mt \in MantTexts, ex \in ExpTexts }

SpecialTexts ==
    { << "i", "n", "f" >>, << "-", "i", "n", "f" >>, << "n", "a", "n" >>,
      << "i", "n", "f", "i", "n", "i", "t", "y" >>, << "z" >>,
      << "1", "x" >>, << "x", "0" >>, << "-", "-", "1" >>, << "1", "-" >>,
      << "N", "a", "N" >>, << "I", "n", "f" >>,
      << "I", "n", "f", "i", "n", "i", "t", "y" >>,
      << "+", "i", "n", "f" >>,
      << "I", "N", "F", "I", "N", "I", "T", "Y" >>,
      << "-", "N", "A", "N" >>, << "i", "n", "f", "i", "n", "i", "t" >>,
      << "i", "n" >>, << "+" >>, << "-" >>, << "+", "-", "1" >>,
      << "1", "e", "5", "e", "5" >>, << "1", "_", "0" >>,
      << "0", "X", "1" >>, << "1", "e", "+", "+", "5" >> }

\* numbers next to the largest u64, next to the boundaries of the classes
\* (those of every way f16::from_f64 is made),
\* with mantissas of many digits and with exponents of many digits
EdgeTexts ==
    { << "1", "8", "4", "4", "6", "7", "4", "4", "0", "7", "3", "7", "0", "9", "5", "5", "1", "6", "1", "5" >>,
      << "2", ".", "9", "8", "0", "2", "3", "2", "3", "0", "e", "-", "8" >>,
      << "2", ".", "9", "8", "0", "2", "3", "2", "2", "3", "8", "7", "7", "0", "e", "-", "8" >>,
      << "2", ".", "9", "8", "0", "2", "3", "2", "5", "e", "-", "8" >>,
      << "2", ".", "9", "8", "0", "2", "3", "5", "1", "e", "-", "8" >>,
      << "6", ".", "1", "0", "0", "5", "3", "5", "3", "0", "e", "-", "5" >>,
      << "6", ".", "1", "0", "0", "5", "3", "5", "3", "9", "2", "7", "6", "0", "e", "-", "5" >>,
      << "6", ".", "1", "0", "0", "5", "3", "5", "1", "e", "-", "5" >>,
      << "6", ".", "5", "5", "1", "9", "9", "9", "9", "0", "e", "4" >>,
      << "6", ".", "5", "5", "1", "9", "9", "9", "9", "9", "9", "9", "9", "0", "e", "4" >>,
      << "6", "5", "5", "1", "9", ".", "9", "9", "8" >>,
      << "6", "5", "5", "1", "9", ".", "9", "9" >>,
      << "1", "8", "4", "4", "6", "7", "4", "4", "0", "7", "3", "7", "0", "9", "5", "5", "1", "6", "1", "6" >>,
      << "+", "1", "8", "4", "4", "6", "7", "4", "4", "0", "7", "3", "7", "0", "9", "5", "5", "1", "6", "1", "5" >>,
      << "1", "0", "0", "0", "0", "0", "0", "0", "0", "0", "0", "0", "0", "0", "0", "0", "0", "0", "0", "0" >>,
      << "0", "0", "0", "0", "0", "0", "0", "0", "0", "0", "0", "0", "0", "0", "0", "0", "0", "0", "0", "0" >>,
      << "0", "0", "0", "0", "0", "0", "0", "0", "0", "0", "0", "0", "0", "0", "0", "0", "0", "0", "0", "0", "1" >>,
      << "9", "9", "9", "9", "9", "9", "9", "9", "9", "9", "9", "9", "9", "9", "9", "9", "9", "9", "9", "9" >>,
      << "3", "4", "0", "2", "8", "2", "3", "5", "6", "7", "7", "9", "7", "3", "3", "6", "6", "1", "6", "3", "7", "5", "3", "9", "3", "9", "5", "4", "5", "8", "1", "4", "2", "5", "6", "8", "4", "4", "7" >>,
      << "3", "4", "0", "2", "8", "2", "3", "5", "6", "7", "7", "9", "7", "3", "3", "6", "6", "1", "6", "3", "7", "5", "3", "9", "3", "9", "5", "4", "5", "8", "1", "4", "2", "5", "6", "8", "4", "4", "8" >>,
      << "0", ".", "0", "0", "0", "0", "6", "1", "0", "0", "6", "0" >>,
      << "6", "5", "5", "2", "0", "0", "e", "-", "1" >>,
      << "0", ".", "0", "0", "0", "0", "6", "1", "0", "0" >>,
      << "6", ".", "1", "0", "0", "5", "e", "-", "5" >>,
      << "6", ".", "1", "0", "0", "6", "e", "-", "5" >>,
      << "6", "5", "5", "1", "9", ".", "9", "9", "9", "9", "9", "9", "9", "9", "9", "9" >>,
      << "6", "5", "5", "1", "9", ".", "9", "9", "9", "9", "9", "9", "9", "9", "9", "9", "9", "9", "9", "9", "9", "9", "9" >>,
      << "6", "5", "5", "2", "0", ".", "0" >>,
      << "0", ".", "0", "0", "0", "0", "0", "0", "0", "2", "9", "8", "0", "2", "3", "2", "2", "3", "8", "7", "6", "9", "5", "3", "1", "2" >>,
      << "0", ".", "0", "0", "0", "0", "0", "0", "0", "2", "9", "8", "0", "2", "3", "2", "2", "3", "8", "7", "6", "9", "5", "3", "2" >>,
      << "2", ".", "9", "8", "e", "-", "8" >>,
      << "2", ".", "9", "9", "e", "-", "8" >>,
      << "1", ".", "1", "7", "5", "4", "9", "4", "3", "e", "-", "3", "8" >>,
      << "1", ".", "1", "7", "5", "4", "9", "4", "4", "e", "-", "3", "8" >>,
      << "3", ".", "4", "0", "2", "8", "2", "3", "5", "e", "3", "8" >>,
      << "3", ".", "4", "0", "2", "8", "2", "3", "6", "e", "3", "8" >>,
      << "1", ".", "7", "9", "7", "6", "9", "3", "1", "3", "4", "8", "6", "2", "3", "1", "5", "8", "e", "3", "0", "8" >>,
      << "1", ".", "7", "9", "7", "6", "9", "3", "1", "3", "4", "8", "6", "2", "3", "1", "5", "9", "e", "3", "0", "8" >>,
      << "2", ".", "2", "2", "5", "0", "7", "3", "8", "5", "8", "5", "0", "7", "2", "0", "1", "1", "e", "-", "3", "0", "8" >>,
      << "2", ".", "2", "2", "5", "0", "7", "3", "8", "5", "8", "5", "0", "7", "2", "0", "1", "4", "e", "-", "3", "0", "8" >>,
      << "2", ".", "4", "7", "0", "3", "2", "8", "2", "2", "9", "2", "0", "6", "2", "3", "2", "7", "e", "-", "3", "2", "4" >>,
      << "2", ".", "4", "7", "0", "3", "2", "8", "2", "2", "9", "2", "0", "6", "2", "3", "2", "8", "e", "-", "3", "2", "4" >>,
      << "1", "e", "6", "5", "5", "3", "5" >>,
      << "1", "e", "-", "6", "5", "5", "3", "5" >>,
      << "1", "e", "9", "9", "9", "9", "9" >>,
      << "1", "e", "-", "9", "9", "9", "9", "9" >>,
      << "0", "e", "9", "9", "9", "9", "9" >>,
      << "1", "e", "0", "0", "0", "0", "0", "0", "0", "0", "0", "5" >>,
      << "0", "0", "0", "0", "0", "0", "0", "0", "0", "0", "0", "0", "0", "0", "0", "0", "0", "0", "0", "0", "0", "0", "0", "0", "0", "0", "0", "0", "0", "0", "6", "5", "5", "2", "0", "e", "-", "0", "0", "0" >>,
      << "0", ".", "0", "0", "0", "0", "0", "0", "0", "0", "0", "0", "0", "0", "0", "0", "0", "0", "0", "0", "0", "0", "0", "0", "0", "0", "0", "0", "0", "0", "0", "1", "e", "3", "5" >> }

ArgTexts == HexTexts \cup DecimalTexts \cup SpecialTexts \cup EdgeTexts

InitArg ==
    /\ kind = "arg"
    /\ arg \in ArgTexts
    /\ f16_path \in F16Paths
    /\ a = 0 /\ b = 0
    /\ fsign = 0 /\ fexp = 0 /\ fman = 0 /\ upper = 0 /\ lower = 0

Init ==
    /\ op = "none"
    /\ res = 0
    /\ out = << >>
    /\ \/ /\ InitPair \/ InitBits \/ InitFields \/ InitRange
          /\ arg = << >>
          /\ f16_path = "fallback"
       \/ InitArg

(***************************************************************************)
(* One action per library function: the call and its outcome.              *)
(***************************************************************************)
args == <<kind, a, b, fsign, fexp, fman, upper, lower, arg, out, f16_path>>

Add ==
    /\ op = "none" /\ kind = "pair"
    /\ op' = "softfloat_add"
    /\ res' = softfloat_add(a, b)
    /\ UNCHANGED args

Sub ==
    /\ op = "none" /\ kind = "pair"
    /\ op' = "softfloat_sub"
    /\ res' = softfloat_sub(a, b)
    /\ UNCHANGED args

Classify ==
    /\ op = "none" /\ kind = "bits"
    /\ op' = "softfloat_classify"
    /\ res' = softfloat_classify(a)
    /\ UNCHANGED args

Extract ==
    /\ op = "none" /\ kind = "bits"
    /\ op' = "extract"
    /\ res' = extract(a)
    /\ UNCHANGED args

ToHardfloat ==
    /\ op = "none" /\ kind = "bits"
    /\ op' = "to_hardfloat"
    /\ res' = to_hardfloat(a)
    /\ UNCHANGED args

ToFlopoco ==
    /\ op = "none" /\ kind = "bits"
    /\ op' = "to_flopoco"
    /\ res' = to_flopoco(a)
    /\ UNCHANGED args

Pack ==
    /\ op = "none" /\ kind = "fields"
    /\ op' = "pack"
    /\ res' = pack(fsign, fexp, fman)
    /\ UNCHANGED args

Range ==
    /\ op = "none" /\ kind = "range"
    /\ op' = "range"
    /\ res' = range(a, upper, lower)
    /\ UNCHANGED args

ProcessArg ==
    /\ op = "none" /\ kind = "arg"
    /\ op' = "process_arg"
    /\ res' = process_arg(arg, f16_path).status
    /\ out' = process_arg(arg, f16_path).lines
    /\ UNCHANGED <<kind, a, b, fsign, fexp, fman, upper, lower, arg, f16_path>>

Next ==
    \/ ProcessArg
    \/ Add
    \/ Sub
    \/ Classify
    \/ Extract
    \/ ToHardfloat
    \/ ToFlopoco
    \/ Pack
    \/ Range

Spec == Init /\ [][Next]_vars

(***************************************************************************)
(* Reference: IEEE-754 addition with round-to-nearest-ties-to-even,        *)
(* computed exactly.  A finite pattern (s, e, m) has the value             *)
(* (-1)^s * Sig(e, m) * 2^Q(e) in units of the least subnormal.            *)
(***************************************************************************)
SignOf(x) == x \div Pow2(WIDTH - 1)
ExpOf(x) == (x \div Pow2(SIG - 1)) % Pow2(EXP)
ManOf(x) == x % Pow2(SIG - 1)

IsPattern(x) == x \in 0 .. (Pow2(WIDTH) - 1)
IsNaN(x) == ExpOf(x) = Pow2(EXP) - 1 /\ ManOf(x) # 0
IsInf(x) == ExpOf(x) = Pow2(EXP) - 1 /\ ManOf(x) = 0
IsFinite(x) == ExpOf(x) < Pow2(EXP) - 1
IsZero(x) == ExpOf(x) = 0 /\ ManOf(x) = 0
IsSubnormal(x) == ExpOf(x) = 0 /\ ManOf(x) # 0
IsNormal(x) == ExpOf(x) > 0 /\ ExpOf(x) < Pow2(EXP) - 1

Pattern(s, e, m) == s * Pow2(WIDTH - 1) + e * Pow2(SIG - 1) + m
Negate(x) == Pattern(1 - SignOf(x), ExpOf(x), ManOf(x))

Sig(x) == IF ExpOf(x) = 0 THEN ManOf(x) ELSE ManOf(x) + Pow2(SIG - 1)
Q(x) == IF ExpOf(x) = 0 THEN 0 ELSE ExpOf(x) - 1

Min2(x, y) == IF x < y THEN x ELSE y
Abs(x) == IF x < 0 THEN -x ELSE x

\* x / 2^n rounded to the nearest integer, ties to even
RneShr(x, n) ==
    IF n = 0 THEN x
    ELSE LET q == x \div Pow2(n)
             r == x % Pow2(n)
             half == Pow2(n - 1)
         IN  IF r > half \/ (r = half /\ q % 2 = 1) THEN q + 1 ELSE q

\* the pattern nearest to (-1)^s * mag * 2^q (mag > 0), overflowing to infinity
IeeeRound(s, mag, q) ==
    LET len == BitLen(mag)
        drop == IF len > SIG THEN len - SIG ELSE 0
        r0 == RneShr(mag, drop)
        r == IF r0 = Pow2(SIG) THEN Pow2(SIG - 1) ELSE r0
        qr == IF r0 = Pow2(SIG) THEN q + drop + 1 ELSE q + drop
        up == Min2(SIG - BitLen(r), qr)
        sig == r * Pow2(up)
        qe == qr - up
    IN  IF sig < Pow2(SIG - 1) THEN Pattern(s, 0, sig)
        ELSE IF qe + 1 >= Pow2(EXP) - 1 THEN Pattern(s, Pow2(EXP) - 1, 0)
        ELSE Pattern(s, qe + 1, sig - Pow2(SIG - 1))

\* x + y for finite x and y.  When the exponents are more than SIG + 2
\* apart, the operand with the smaller exponent is below a quarter of the
\* distance from the other operand to its nearest neighbour, and the sum
\* rounds to the other operand.
IeeeSumFinite(x, y) ==
    LET d == Q(x) - Q(y)
    IN  IF d > SIG + 2 THEN x
        ELSE IF -d > SIG + 2 THEN y
        ELSE LET q == Min2(Q(x), Q(y))
                 vx == (IF SignOf(x) = 1 THEN -1 ELSE 1) * Sig(x) * Pow2(Q(x) - q)
                 vy == (IF SignOf(y) = 1 THEN -1 ELSE 1) * Sig(y) * Pow2(Q(y) - q)
                 n == vx + vy
             IN  IF n = 0
                 THEN Pattern(IF SignOf(x) = 1 /\ SignOf(y) = 1 THEN 1 ELSE 0, 0, 0)
                 ELSE IeeeRound(IF n < 0 THEN 1 ELSE 0, Abs(n), q)

\* infinity minus infinity: the invalid operation, whose result is a NaN
IsInvalidSum(x, y) == IsInf(x) /\ IsInf(y) /\ SignOf(x) # SignOf(y)

\* x + y for non-NaN x and y whose sum is not invalid
IeeeSum(x, y) ==
    IF IsInf(x) THEN x
    ELSE IF IsInf(y) THEN y
    ELSE IeeeSumFinite(x, y)

\* res is a result IEEE-754 allows for x + y, x and y not NaN
IsIeeeSum(x, y, r) ==
    IF IsInvalidSum(x, y) THEN IsPattern(r) /\ IsNaN(r)
    ELSE r = IeeeSum(x, y)

(***************************************************************************)
(* Properties.                                                             *)
(***************************************************************************)
IsAddCall == op = "softfloat_add"
IsSubCall == op = "softfloat_sub"

\* the dispatch of the call selected effective_add / effective_sub
IsEffectiveAdd ==
    \/ IsAddCall /\ SignOf(a) = SignOf(b)
    \/ IsSubCall /\ SignOf(a) # SignOf(b)

IsEffectiveSub ==
    \/ IsAddCall /\ SignOf(a) # SignOf(b)
    \/ IsSubCall /\ SignOf(a) = SignOf(b)

\* C1: for operands that are not NaN, the bit pattern softfloat_add(a, b)
\* returns is that of the IEEE-754 round-to-nearest-ties-to-even sum a + b
\* (that the call returns at all is C3).
C1_AddIsIeeeSum ==
    IsAddCall /\ ~IsNaN(a) /\ ~IsNaN(b) /\ res # Panic => IsIeeeSum(a, b, res)

\* C2: for operands that are not NaN, the bit pattern softfloat_sub(a, b)
\* returns is that of the IEEE-754 round-to-nearest-ties-to-even difference
\* a - b (that the call returns at all is C3).
C2_SubIsIeeeDifference ==
    IsSubCall /\ ~IsNaN(a) /\ ~IsNaN(b) /\ res # Panic => IsIeeeSum(a, Negate(b), res)

\* C3: softfloat_add and softfloat_sub never fail: every call returns a
\* W-bit pattern.
C3_AddSubNeverPanic ==
    IsAddCall \/ IsSubCall => IsPattern(res)

\* C4: softfloat_add and softfloat_sub return a NaN pattern only when an
\* operand is NaN or the call is an effective subtraction of two infinities.
C4_NaNOnlyFromInvalid ==
    (IsAddCall \/ IsSubCall) /\ IsPattern(res) /\ IsNaN(res)
        => \/ IsNaN(a)
           \/ IsNaN(b)
           \/ IsInf(a) /\ IsInf(b) /\ IsEffectiveSub

\* C5: when an effective addition of two finite operands overflows (its
\* round-to-nearest-even result exceeds the largest finite magnitude), the
\* call returns the infinity (sign_a, max_exp, 0).
C5_OverflowGivesInfinity ==
    /\ IsEffectiveAdd
    /\ IsFinite(a) /\ IsFinite(b)
    /\ IsInf(IeeeSum(a, IF IsSubCall THEN Negate(b) ELSE b))
    => res = Pattern(SignOf(a), Pow2(EXP) - 1, 0)

InRangeFields ==
    /\ fsign \in 0 .. 1
    /\ fexp \in 0 .. (Pow2(EXP) - 1)
    /\ fman \in 0 .. (Pow2(SIG - 1) - 1)

\* C6: extract and pack are mutually inverse: pack(extract(b)) = b for every
\* W-bit pattern b, extract(pack(s, e, m)) = (s, e, m) for every in-range
\* triple, and after extract each field fits its declared width.
C6_ExtractPackInverse ==
    /\ op = "extract" =>
          /\ res[1] \in 0 .. 1
          /\ res[2] \in 0 .. (Pow2(EXP) - 1)
          /\ res[3] \in 0 .. (Pow2(SIG - 1) - 1)
          /\ PackTriple(res) = a
    /\ op = "pack" /\ InRangeFields =>
          /\ res # Panic
          /\ extract(res) = << fsign, fexp, fman >>

C6_Witness ==
    /\ op = "extract"
    /\ res[1] = 1 /\ res[2] = Pow2(EXP) - 2 /\ res[3] = Pow2(SIG - 1) - 1

\* C7: programming faults abort: pack aborts exactly when a field is out of
\* range, range aborts whenever hi < lo, and to_flopoco aborts on every
\* subnormal input.
C7_FaultsAbort ==
    /\ op = "pack" => (res = Panic <=> ~InRangeFields)
    /\ op = "range" /\ upper < lower => res = Panic
    /\ op = "to_flopoco" /\ IsSubnormal(a) => res = Panic

C7_Witness ==
    /\ op = "pack"
    /\ fsign = 1 /\ fexp = 1 /\ fman = Pow2(SIG - 1)
    /\ res = Panic

\* the class the table of the specification gives a pattern
ClassOf(x) ==
    IF ExpOf(x) = 0 /\ ManOf(x) = 0 THEN "Zero"
    ELSE IF ExpOf(x) = 0 THEN "Subnormal"
    ELSE IF ExpOf(x) = Pow2(EXP) - 1 /\ ManOf(x) = 0 THEN "Infinite"
    ELSE IF ExpOf(x) = Pow2(EXP) - 1 THEN "Nan"
    ELSE "Normal"

\* C8: softfloat_classify returns the class the table gives the exponent
\* and mantissa fields of its argument, whatever the sign.
C8_ClassifyTable ==
    op = "softfloat_classify" =>
        /\ res = ClassOf(a)
        /\ res = ClassOf(Negate(a))

C8_Witness ==
    op = "softfloat_classify" /\ IsNaN(a) /\ SignOf(a) = 1 /\ res = "Nan"

\* C9 as stated: for every pair of patterns, two NaNs included,
\* softfloat_add(a, b) and softfloat_add(b, a) return identical bits.
C9_AddCommutes ==
    IsAddCall => res = softfloat_add(b, a)

\* C9 amended: softfloat_add(a, b) and softfloat_add(b, a) have the same
\* outcome (the same bit pattern, or both panic) for every pair of patterns
\* that are not both NaN; for two NaNs softfloat_add(a, b) returns a.
C9_AddCommutesUnlessBothNaN ==
    IsAddCall =>
        IF IsNaN(a) /\ IsNaN(b) THEN res = a
        ELSE res = softfloat_add(b, a)

C9_Witness ==
    /\ IsAddCall
    /\ IsInf(a) /\ IsNaN(b) /\ SignOf(a) # SignOf(b)
    /\ res = b

\* C10: softfloat_add(x, +0) returns x unchanged for every pattern x,
\* except that softfloat_add(-0, +0) returns +0.
C10_PlusZeroIsIdentity ==
    IsAddCall /\ b = Pattern(0, 0, 0) =>
        res = IF a = Pattern(1, 0, 0) THEN Pattern(0, 0, 0) ELSE a

C10_Witness ==
    /\ IsAddCall /\ b = Pattern(0, 0, 0)
    /\ IsNormal(a) /\ SignOf(a) = 0 /\ ManOf(a) # 0
    /\ res = a


\* C11: for every finite pattern x, softfloat_sub(x, x) returns +0 (all bits
\* zero), and so does softfloat_add(x, -x).
C11_SelfDifferenceIsPlusZero ==
    /\ (IsSubCall /\ IsFinite(a) /\ b = a) => res = 0
    /\ (IsAddCall /\ IsFinite(a) /\ b = Negate(a)) => res = 0

\* a negative subnormal subtracted from itself, and a negative normal added
\* to its negation, have both given +0
C11_Witness ==
    \/ IsSubCall /\ IsSubnormal(a) /\ SignOf(a) = 1 /\ b = a /\ res = 0
    \/ IsAddCall /\ IsNormal(a) /\ SignOf(a) = 1 /\ b = Negate(a) /\ res = 0

\* C12 as stated: softfloat_sub(x, -0) returns x unchanged for every W-bit
\* pattern x, x = -0 included.
C12_MinusZeroIsIdentity ==
    (IsSubCall /\ b = Pattern(1, 0, 0)) => res = a

\* C12 amended: softfloat_sub(x, -0) returns x unchanged for every W-bit
\* pattern x other than -0, and softfloat_sub(-0, -0) returns +0.
C12_MinusZeroIsIdentityButMinusZero ==
    (IsSubCall /\ b = Pattern(1, 0, 0)) =>
        res = (IF a = Pattern(1, 0, 0) THEN Pattern(0, 0, 0) ELSE a)

\* -0 - (-0) has given +0, or a negative subnormal minus -0 has come back
C12_Witness ==
    /\ IsSubCall /\ b = Pattern(1, 0, 0)
    /\ \/ a = Pattern(1, 0, 0) /\ res = Pattern(0, 0, 0)
       \/ IsSubnormal(a) /\ SignOf(a) = 1 /\ res = a

\* C13: every effective subtraction of two infinities (softfloat_add of
\* infinities of opposite sign, softfloat_sub of infinities of the same
\* sign) returns the canonical quiet NaN: sign 0, exp = max_exp,
\* man = 2^(S-2).
C13_InfMinusInfIsCanonicalNaN ==
    (IsEffectiveSub /\ IsInf(a) /\ IsInf(b)) =>
        res = Pattern(0, max_exp, Pow2(SIG - 2))

\* two negative infinities subtracted, or -inf added to +inf, have given
\* the canonical quiet NaN
C13_Witness ==
    /\ IsEffectiveSub /\ IsInf(a) /\ IsInf(b) /\ SignOf(a) = 1
    /\ res = Pattern(0, max_exp, Pow2(SIG - 2))


(***************************************************************************)
(* The translators: fields of the recoded and of the FloPoCo pattern.      *)
(***************************************************************************)
IsHardfloatCall == op = "to_hardfloat"
IsFlopocoCall == op = "to_flopoco"

\* sign : (E+1)-bit exponent : (S-1)-bit significand of a recoded pattern
RecSign(r) == r \div Pow2(EXP + SIG)
RecExp(r) == (r \div Pow2(SIG - 1)) % Pow2(EXP + 1)
RecSig(r) == r % Pow2(SIG - 1)
Recoded(s, e, m) == s * Pow2(EXP + SIG) + e * Pow2(SIG - 1) + m

\* exn : sign : E-bit exponent : (S-1)-bit significand of a FloPoCo pattern
FloExn(r) == r \div Pow2(WIDTH)
FloSign(r) == (r \div Pow2(WIDTH - 1)) % 2
FloExp(r) == (r \div Pow2(SIG - 1)) % Pow2(EXP)
FloSig(r) == r % Pow2(SIG - 1)

\* C14: to_hardfloat on a NaN input gives recoded exponent field
\* 0b111 << (E-2), recoded significand field 0 and the input's sign bit.
C14_HardfloatNaN ==
    (IsHardfloatCall /\ IsNaN(a)) =>
        /\ res # Panic
        /\ RecExp(res) = 7 * Pow2(EXP - 2)
        /\ RecSig(res) = 0
        /\ RecSign(res) = SignOf(a)

\* C15: to_hardfloat on an infinity input gives recoded exponent field
\* 0b110 << (E-2) (top three bits 110, low bits zero), recoded significand
\* field 0 and the input's sign bit.
C15_HardfloatInfinity ==
    (IsHardfloatCall /\ IsInf(a)) =>
        /\ res = Recoded(SignOf(a), 6 * Pow2(EXP - 2), 0)
        /\ RecExp(res) \div Pow2(EXP - 2) = 6
        /\ RecExp(res) % Pow2(EXP - 2) = 0

\* the negative infinity has been recoded
C15_Witness ==
    /\ IsHardfloatCall /\ IsInf(a) /\ SignOf(a) = 1
    /\ RecSign(res) = 1 /\ RecExp(res) = 6 * Pow2(EXP - 2)

\* C16: to_hardfloat on a zero gives recoded exponent 0 and significand 0;
\* on a normal input it gives recoded exponent exp_in + 2^(E-1) + 1 and
\* significand man_in; in both cases the output is
\* sign : recoded_exp : recoded_sig with the input's sign and fits W+1 bits.
C16_HardfloatZeroAndNormal ==
    /\ (IsHardfloatCall /\ IsZero(a)) =>
            /\ res = Recoded(SignOf(a), 0, 0)
            /\ RecSign(res) = SignOf(a) /\ RecExp(res) = 0 /\ RecSig(res) = 0
    /\ (IsHardfloatCall /\ IsNormal(a)) =>
            /\ res = Recoded(SignOf(a), ExpOf(a) + Pow2(EXP - 1) + 1, ManOf(a))
            /\ RecSign(res) = SignOf(a)
            /\ RecExp(res) = ExpOf(a) + Pow2(EXP - 1) + 1
            /\ RecSig(res) = ManOf(a)
    /\ (IsHardfloatCall /\ (IsZero(a) \/ IsNormal(a))) =>
            res >= 0 /\ res < Pow2(WIDTH + 1)

\* the negative zero and the largest negative normal have been recoded
C16_Witness ==
    /\ IsHardfloatCall /\ SignOf(a) = 1 /\ RecSign(res) = 1
    /\ \/ IsZero(a) /\ RecExp(res) = 0
       \/ /\ ExpOf(a) = Pow2(EXP) - 2 /\ ManOf(a) = Pow2(SIG - 1) - 1
          /\ RecExp(res) = Pow2(EXP) + Pow2(EXP - 1) - 1

\* the leading zero bits of an (S-1)-bit mantissa m # 0, counted from
\* bit S-2
LeadingZerosOf(m) ==
    CHOOSE n \in 0 .. (SIG - 2) :
        m * Pow2(n) >= Pow2(SIG - 2) /\ m * Pow2(n) < Pow2(SIG - 1)

\* C17: to_hardfloat on a subnormal input gives recoded exponent
\* 2^(E-1) + 2 - n and significand man_in << n, n being the number of
\* leading zero bits of the (S-1)-bit mantissa counted from bit S-2; the
\* significand fits S-1 bits and the exponent fits E+1 bits.
C17_HardfloatSubnormal ==
    (IsHardfloatCall /\ IsSubnormal(a)) =>
        LET n == LeadingZerosOf(ManOf(a))
            e == Pow2(EXP - 1) + 2 - n
            m == ManOf(a) * Pow2(n)
        IN  /\ e >= 0 /\ e < Pow2(EXP + 1)
            /\ m < Pow2(SIG - 1)
            /\ res = Recoded(SignOf(a), e, m)
            /\ RecExp(res) = e /\ RecSig(res) = m /\ RecSign(res) = SignOf(a)

\* the smallest subnormal (n = S-2) of negative sign has been recoded
C17_Witness ==
    /\ IsHardfloatCall /\ SignOf(a) = 1 /\ ExpOf(a) = 0 /\ ManOf(a) = 1
    /\ RecExp(res) = Pow2(EXP - 1) + 2 - (SIG - 2)
    /\ RecSig(res) = Pow2(SIG - 2)

Classes == { "Zero", "Subnormal", "Normal", "Infinite", "Nan" }

\* the recoded exponents to_hardfloat gives to the inputs of each class
HardfloatExps ==
    [ c \in Classes |->
        { RecExp(to_hardfloat(y)) : y \in { x \in UnaryPatterns : ClassOf(x) = c } } ]

\* C18: the recoded exponent of to_hardfloat separates the classes: the
\* exponent field given to an input is given to no input of another class
\* among zero, subnormal, normal, infinity and NaN.
C18_HardfloatExponentSeparatesClasses ==
    IsHardfloatCall =>
        \A c \in Classes \ { ClassOf(a) } : RecExp(res) \notin HardfloatExps[c]

\* the exn code of a class
ExnOf(c) ==
    IF c = "Zero" THEN 0 ELSE IF c = "Normal" THEN 1
    ELSE IF c = "Infinite" THEN 2 ELSE 3

\* C19: for every input that is not subnormal, the two exn bits of
\* to_flopoco's output are the class code of the input (00 zero, 01 normal,
\* 10 infinity, 11 NaN), and for infinities and NaNs the exponent and
\* significand fields of the output are 0.
C19_FlopocoExnIsClass ==
    (IsFlopocoCall /\ ~IsSubnormal(a)) =>
        /\ res # Panic
        /\ FloExn(res) = ExnOf(ClassOf(a))
        /\ (IsInf(a) \/ IsNaN(a)) => (FloExp(res) = 0 /\ FloSig(res) = 0)

\* C20: for every normal input, to_flopoco returns exn : sign : exp : man
\* with exn = 01 and the input's sign, exponent and mantissa, that is
\* 2^W + input, which fits W+2 bits.
C20_FlopocoNormal ==
    (IsFlopocoCall /\ IsNormal(a)) =>
        /\ res = Pow2(WIDTH) + a
        /\ res < Pow2(WIDTH + 2)
        /\ FloExn(res) = 1 /\ FloSign(res) = SignOf(a)
        /\ FloExp(res) = ExpOf(a) /\ FloSig(res) = ManOf(a)

\* a negative normal input with the largest normal exponent has been
\* translated
C20_Witness ==
    /\ IsFlopocoCall /\ SignOf(a) = 1 /\ ExpOf(a) = Pow2(EXP) - 2 /\ ManOf(a) # 0
    /\ res = Pow2(WIDTH) + a


\* C21: effective addition of two operands with exponent field 0 returns
\* the pattern sign_a followed by the (W-1)-bit value m_a + m_b for every
\* such pair, a sum m_a + m_b >= 2^(S-1) becoming the normal with exp = 1,
\* and the call does not abort.
C21_SubnormalSumCarriesIntoExponent ==
    (IsEffectiveAdd /\ ExpOf(a) = 0 /\ ExpOf(b) = 0) =>
        /\ res # Panic
        /\ res = SignOf(a) * Pow2(WIDTH - 1) + ManOf(a) + ManOf(b)

\* the exact magnitude of a finite pattern in units of the smallest subnormal
Mag(x) == Sig(x) * Pow2(Q(x))

\* both operands finite and their exact difference non-zero and below the
\* smallest normal
DifferenceUnderflows(x, y) ==
    /\ IsFinite(x) /\ IsFinite(y)
    /\ Q(x) <= SIG /\ Q(y) <= SIG
    /\ Mag(x) # Mag(y)
    /\ Abs(Mag(x) - Mag(y)) < Pow2(SIG - 1)

\* C22: whenever an effective subtraction of two finite operands has a
\* non-zero exact difference smaller in magnitude than the smallest normal,
\* the call does not abort and returns the subnormal pattern (exp field 0)
\* holding that difference.
C22_UnderflowGivesSubnormal ==
    (IsEffectiveSub /\ DifferenceUnderflows(a, b)) =>
        /\ res # Panic
        /\ ExpOf(res) = 0
        /\ ManOf(res) = Abs(Mag(a) - Mag(b))

\* |x| < |y|, the magnitudes compared as the (exp, man) pair
MagLess(x, y) ==
    \/ ExpOf(x) < ExpOf(y)
    \/ ExpOf(x) = ExpOf(y) /\ ManOf(x) < ManOf(y)

\* C23: the sign bit of the result of softfloat_add / softfloat_sub is a's
\* sign bit when the dispatch selects effective_add; when it selects
\* effective_sub it is a's sign bit if |a| >= |b| and the complement of a's
\* sign bit if |a| < |b|.
C23_ResultSignRule ==
    ((IsAddCall \/ IsSubCall) /\ res # Panic) =>
        SignOf(res) = (IF IsEffectiveAdd THEN SignOf(a)
                       ELSE IF MagLess(a, b) THEN 1 - SignOf(a)
                       ELSE SignOf(a))

\* C24: for every pattern a and every non-NaN pattern b, softfloat_sub(a, b)
\* returns the bits of softfloat_add(a, b with its sign bit flipped); for
\* finite a and infinite b it is the infinity of the sign opposite to b's.
C24_SubIsAddOfNegation ==
    (IsSubCall /\ ~IsNaN(b)) =>
        /\ res = softfloat_add(a, Negate(b))
        /\ (IsFinite(a) /\ IsInf(b)) =>
                res = Pattern(1 - SignOf(b), Pow2(EXP) - 1, 0)


\* the significand values of the call that has been made
CallSignificands ==
    IF IsEffectiveAdd
    THEN effective_add_significands(ExpOf(a), ManOf(a), ExpOf(b), ManOf(b))
    ELSE effective_sub_significands(ExpOf(a), ManOf(a), ExpOf(b), ManOf(b))

\* C25: in every execution of softfloat_add and softfloat_sub on finite
\* operands, every intermediate significand value (pre-shifted operands with
\* hidden bit, sticky-aligned operand, sum or difference, normalized and
\* rounded value) is below 2^(S+5); the value has at most S + 5 bits, so
\* with the F64_SIG - S further bits that the significand of binary64 has
\* it is within one 64-bit word.
C25_SignificandsBelowSPlus5Bits ==
    ((IsAddCall \/ IsSubCall) /\ IsFinite(a) /\ IsFinite(b)) =>
        \A v \in computed(CallSignificands) :
            /\ v >= 0 /\ v < Pow2(SIG + 5)
            /\ BitLen(v) + (F64_SIG - SIG) <= U64Bits

\* an addition of finite operands with different exponents, the smaller one
\* normal, has gone through a sum of S+4 bits that was shifted back by the
\* carry, and the last value of the sequence is the mantissa of the result
C25_Witness ==
    /\ (IsAddCall \/ IsSubCall) /\ IsEffectiveAdd
    /\ IsFinite(a) /\ IsFinite(b) /\ ExpOf(a) # ExpOf(b)
    /\ ExpOf(a) # 0 /\ ExpOf(b) # 0
    /\ res # Panic
    /\ \E v \in computed(CallSignificands) : BitLen(v) = SIG + 4
    /\ Len(CallSignificands) = 10
    /\ Last(CallSignificands) = ManOf(res)


IsProcessArgCall == op = "process_arg"

\* the lines of a complete float -> hex block
FloatBlock ==
    << << "float -> hex:", "" >>,
       << "", "f16" >>, << "h", "f16" >>, << "fpc", "f16" >>,
       << "", "f32" >>, << "h", "f32" >>, << "fpc", "f32" >>,
       << "", "f64" >>, << "h", "f64" >>, << "fpc", "f64" >> >>

\* the last Len(t) lines of s are t
EndsWith(s, t) ==
    Len(s) >= Len(t) /\ SubSeq(s, Len(s) - Len(t) + 1, Len(s)) = t

\* C26: for every argument that parses as a decimal float or a pure decimal
\* integer, whatever class its value has in f16, f32 and f64, process_arg
\* returns Ok after writing the echo line and a float -> hex block with the
\* standard, recoded and FloPoCo line of each of the three formats; an
\* error is returned only for an argument that does not start with 0x and
\* does not parse as a float.
C26_ProcessArgSucceedsOnNumbers ==
    IsProcessArgCall =>
        /\ (~starts_with_0x(arg) /\ (parse_u64_is_ok(arg) \/ parse_f64(arg).ok)) =>
                /\ res = Ok
                /\ Len(out) > 0 /\ out[1] = << "echo", "" >>
                /\ EndsWith(out, FloatBlock)
        /\ res # Ok => (~starts_with_0x(arg) /\ ~parse_f64(arg).ok)

====
